---- MODULE Spec2Model ----
(***************************************************************************)
(* Model of scripts/texlive.py: the TeX Live installer helper.             *)
(*                                                                         *)
(* Strings the code inspects character by character (URLs, tokens,        *)
(* directory names that are sorted) are sequences of one-character         *)
(* strings or of digits.  The file system is the part of it the code       *)
(* reads: the working directory's install-tl entry, the known TeX Live     *)
(* roots, the roots tlmgr may report, the listing of a binary directory    *)
(* and the symlink destination.  Subprocess results are inputs.            *)
(***************************************************************************)
EXTENDS Integers, Sequences, FiniteSets, TLC

VARIABLES
    command,        \* args.command
    pc,             \* position of main / run_install / download_installer
    exit_code,      \* status the process ended with (NoExit while running)
    steps,          \* steps of run_install taken so far, in order
    proc,           \* subprocess run by the latest step (NoProc if none)
    ncalls,         \* number of subprocesses invoked so far
    installed,      \* the installer subprocess has exited 0
    probe_ok,       \* a tex --version subprocess has exited 0
    install_tl,     \* what <workdir>/install-tl is
    roots,          \* the known TeX Live roots
    custom,         \* other installation roots (tlmgr may name them)
    listing,        \* entries of a binary directory besides tex
    dest,           \* SYMLINK_DESTINATION: kind and entries
    dest0,          \* dest as symlink_binaries found it
    bin_dir,        \* bin_dir of run_install
    link_src,       \* bin_dir argument symlink_binaries was called with
    attempted,      \* binaries the symlink loop tried to link
    link_failed,    \* binaries whose linking raised OSError
    version, archive_name, mirror, archive_mirror, cache_buster,
    url,            \* url of download_installer before append_cache_buster
    fetched         \* url passed to urlopen

vars == <<command, pc, exit_code, steps, proc, ncalls, installed, probe_ok,
          install_tl, roots, custom, listing, dest, dest0, bin_dir, link_src,
          attempted, link_failed, version, archive_name, mirror,
          archive_mirror, cache_buster, url, fetched>>

urlVars == <<version, archive_name, mirror, archive_mirror, cache_buster>>
fsVars == <<install_tl, roots, custom, listing>>

----------------------------------------------------------------------------
(* Bounds *)

MaxExitCode == 2     \* subprocesses exit with 0..MaxExitCode
MaxMirrorLen == 2    \* characters of a mirror url
MaxTokenLen == 2     \* characters of a cache-buster token
MaxLines == 2        \* lines of tlmgr conf output

NoExit == -1
NotFound == -1       \* subprocess.run raised FileNotFoundError
Outcomes == {NotFound} \cup (0..MaxExitCode)

NoProc == [cmd |-> "none", rc |-> 0]

SeqsUpTo(S, n) == UNION {[1..k -> S] : k \in 0..n}

----------------------------------------------------------------------------
(* Strings: append_cache_buster and the url of download_installer *)

Str(s) == <<s>>
TS == <<"t", "s", "=">>
TLNET_FINAL == <<"/", "tlnet-final", "/">>
LATEST == <<"l", "a", "t", "e", "s", "t">>

Contains(s, c) == \E i \in 1..Len(s) : s[i] = c

RECURSIVE rstrip(_, _)
rstrip(s, c) ==
    IF s # <<>> /\ s[Len(s)] = c THEN rstrip(SubSeq(s, 1, Len(s) - 1), c) ELSE s

append_cache_buster_always(u, token) ==
    u \o Str(IF Contains(u, "?") THEN "&" ELSE "?") \o TS \o token

append_cache_buster(u, token) ==
    IF token = <<>> \/ token = Str("0")
    THEN u
    ELSE u \o Str(IF Contains(u, "?") THEN "&" ELSE "?") \o TS \o token

resolve_url_no_latest(v, name, m, am) ==
    rstrip(am, "/") \o Str("/") \o v \o TLNET_FINAL \o name

resolve_url(v, name, m, am) ==
    IF v = LATEST
    THEN rstrip(m, "/") \o Str("/") \o name
    ELSE rstrip(am, "/") \o Str("/") \o v \o TLNET_FINAL \o name

----------------------------------------------------------------------------
(* Paths and the file system the resolver reads *)

KNOWN_TEXLIVE_ROOTS == <<"/usr/local/texlive", "/opt/texlive">>
KnownRoots == {KNOWN_TEXLIVE_ROOTS[i] : i \in DOMAIN KNOWN_TEXLIVE_ROOTS}
CustomRoots == {"/srv/tl", "/home/tl"}
Archs == {"x86_64-linux", "aarch64-linux"}

\* Directory names are digit strings; "9" and "10" sort differently as
\* strings and as numbers.
Names == {<<9>>, <<1, 0>>}

\* <root>/<entry>/bin/<arch>; entry is <<>> for <root>/bin/<arch>
Path(r, e, a) == [root |-> r, entry |-> e, arch |-> a]
None == Path("", <<>>, "")
OldDir == Path("/old", <<>>, "bin")

\* An installation directory: absent, without a bin directory, or with a
\* bin directory whose architecture directories in tex hold a regular file
\* tex (other architecture directories hold none).
AbsentEntry == [kind |-> "absent", tex |-> {}]
NoBinEntry == [kind |-> "nobin", tex |-> {}]
BinEntry(t) == [kind |-> "bin", tex |-> t]
Entries == {AbsentEntry, NoBinEntry} \cup {BinEntry(t) : t \in SUBSET Archs}

AbsentRoot == [kind |-> "absent", entries |-> [n \in Names |-> AbsentEntry]]
FileRoot == [kind |-> "file", entries |-> [n \in Names |-> AbsentEntry]]
DirRoot(es) == [kind |-> "dir", entries |-> es]
RootStates == {AbsentRoot, FileRoot} \cup {DirRoot(es) : es \in [Names -> Entries]}

\* Python's str ordering: first differing character, a proper prefix first
RECURSIVE LexLess(_, _)
LexLess(a, b) ==
    IF b = <<>> THEN FALSE
    ELSE IF a = <<>> THEN TRUE
    ELSE IF Head(a) # Head(b) THEN Head(a) < Head(b)
    ELSE LexLess(Tail(a), Tail(b))

RECURSIVE sorted_ascending(_)
sorted_ascending(S) ==
    IF S = {} THEN <<>>
    ELSE LET m == CHOOSE x \in S : \A y \in S \ {x} : LexLess(x, y)
         IN <<m>> \o sorted_ascending(S \ {m})

\* sorted(root.iterdir(), reverse=True)
RECURSIVE sorted_reverse(_)
sorted_reverse(S) ==
    IF S = {} THEN <<>>
    ELSE LET m == CHOOSE x \in S : \A y \in S \ {x} : LexLess(y, x)
         IN <<m>> \o sorted_reverse(S \ {m})

iterdir_root(rt) == {n \in Names : rt.entries[n].kind # "absent"}

\* The entries of one root in scan order: the directories the generator
\* would yield first (any enumeration order of bin_root.iterdir()).
RECURSIVE scan_entries(_, _, _)
scan_entries(r, rt, order) ==
    IF order = <<>> THEN {}
    ELSE LET e == rt.entries[Head(order)]
         IN IF e.kind = "bin" /\ e.tex # {}
            THEN {Path(r, Head(order), a) : a \in e.tex}
            ELSE scan_entries(r, rt, Tail(order))

\* The first value of iter_candidate_bin_dirs(): found (one of cands),
\* exhausted, or an uncaught NotADirectoryError from root.iterdir().
RECURSIVE scan_roots(_, _)
scan_roots(rts, i) ==
    IF i > Len(KNOWN_TEXLIVE_ROOTS) THEN [status |-> "none", cands |-> {}]
    ELSE LET r == KNOWN_TEXLIVE_ROOTS[i]
             rt == rts[r]
         IN IF rt.kind = "absent" THEN scan_roots(rts, i + 1)
            ELSE IF rt.kind = "file" THEN [status |-> "crash", cands |-> {}]
            ELSE LET c == scan_entries(r, rt, sorted_reverse(iterdir_root(rt)))
                 IN IF c # {} THEN [status |-> "found", cands |-> c]
                    ELSE scan_roots(rts, i + 1)

iter_candidate_bin_dirs(rts) == scan_roots(rts, 1)

----------------------------------------------------------------------------
(* Process runner *)

\* run_subprocess: whether it raised SystemExit, and with which code
run_subprocess_exit_one(rc, check) ==
    IF rc = NotFound THEN [raised |-> TRUE, code |-> 1]
    ELSE IF check /\ rc # 0 THEN [raised |-> TRUE, code |-> 1]
    ELSE [raised |-> FALSE, code |-> 0]

run_subprocess(rc, check) ==
    IF rc = NotFound THEN [raised |-> TRUE, code |-> 1]
    ELSE IF check /\ rc # 0 THEN [raised |-> TRUE, code |-> rc]
    ELSE [raised |-> FALSE, code |-> 0]

check_path_always(rc) == TRUE

check_path_never(rc) == FALSE

check_path(rc) == ~run_subprocess(rc, TRUE).raised

tlmgr_path_add(rc) == ~run_subprocess(rc, FALSE).raised

\* Lines of tlmgr conf texmf output
OtherLine == [kind |-> "other", root |-> ""]
KeyOnlyLine == [kind |-> "keyonly", root |-> ""]
RootLine(r) == [kind |-> "root", root |-> r]
Lines == {OtherLine, KeyOnlyLine} \cup {RootLine(r) : r \in CustomRoots}

RECURSIVE scan_lines(_, _)
scan_lines(cust, out) ==
    IF out = <<>> THEN {None}
    ELSE LET l == Head(out)
         IN IF l.kind = "root" /\ cust[l.root].kind = "bin" /\ cust[l.root].tex # {}
            THEN {Path(l.root, <<>>, a) : a \in cust[l.root].tex}
            ELSE scan_lines(cust, Tail(out))

\* bin_dir_from_tlmgr: the values it may return
bin_dir_from_tlmgr(cust, rc, out) ==
    IF run_subprocess(rc, TRUE).raised THEN {None} ELSE scan_lines(cust, out)

\* locate_install_tl: the path returned, or "" when it exits
locate_install_tl_exists(kind) ==
    IF kind # "absent" THEN "install-tl" ELSE ""

locate_install_tl(kind) ==
    IF kind = "file" THEN "install-tl"
    ELSE IF kind = "dir_with_file" THEN "install-tl/install-tl"
    ELSE ""

InstallTlKinds == {"absent", "file", "dir_with_file", "dir_empty", "dir_with_dir"}

----------------------------------------------------------------------------
(* Symlink fixer *)

SYMLINK_DESTINATION == "/usr/local/bin"

\* Entries of a binary directory besides tex, and names in the destination
ExtraNames == {"a", "sub"}
BinNames == {"tex"} \cup ExtraNames
DestNames == BinNames \cup {"z"}
EntryKinds == {"absent", "file", "dir"}

\* An entry of the destination directory
DAbsent == [kind |-> "absent", live |-> FALSE, src |-> None, name |-> ""]
DFile == [kind |-> "file", live |-> FALSE, src |-> None, name |-> ""]
DDir == [kind |-> "dir", live |-> FALSE, src |-> None, name |-> ""]
DLink(b, f) == [kind |-> "link", live |-> TRUE, src |-> b, name |-> f]
DBroken(f) == [kind |-> "link", live |-> FALSE, src |-> OldDir, name |-> f]
DestEntries(f) ==
    IF f \in BinNames THEN {DAbsent, DFile, DDir, DLink(OldDir, f), DBroken(f)}
    ELSE {DAbsent, DFile}

NoDest == [kind |-> "absent", entries |-> [n \in DestNames |-> DAbsent]]
FileDest == [kind |-> "file", entries |-> [n \in DestNames |-> DAbsent]]
DirDest(es) == [kind |-> "dir", entries |-> es]

\* binary.is_file() over bin_dir.iterdir()
kind_of(lst, f) == IF f = "tex" THEN "file" ELSE lst[f]
\* every entry of bin_dir.iterdir(), directories included
all_entries(lst) == {f \in BinNames : kind_of(lst, f) # "absent"}

regular_files(lst) == {f \in BinNames : kind_of(lst, f) = "file"}

target_exists(e) == e.kind \in {"file", "dir"} \/ (e.kind = "link" /\ e.live)
target_is_symlink(e) == e.kind = "link"

Outs == {"ok", "unlink_fails", "symlink_fails"}

\* The body of the try block for one binary: the entry left behind and
\* whether OSError was raised.  A directory cannot be unlinked; symlink
\* over an entry still present raises FileExistsError.
link_one(e, b, f, o) ==
    LET unl == target_exists(e) \/ target_is_symlink(e)
    IN IF unl /\ (e.kind = "dir" \/ o = "unlink_fails")
       THEN [entry |-> e, ok |-> FALSE]
       ELSE LET e1 == IF unl THEN DAbsent ELSE e
            IN IF e1.kind # "absent" \/ o = "symlink_fails"
               THEN [entry |-> e1, ok |-> FALSE]
               ELSE [entry |-> DLink(b, f), ok |-> TRUE]

\* The loop of symlink_binaries over the binaries in enumeration order
RECURSIVE symlink_loop_break(_, _, _, _)
symlink_loop_break(b, order, outc, acc) ==
    IF order = <<>> THEN acc
    ELSE LET f == Head(order)
             r == link_one(acc.entries[f], b, f, outc[f])
             nxt == [entries |-> [acc.entries EXCEPT ![f] = r.entry],
                     attempted |-> acc.attempted \cup {f},
                     failed |-> IF r.ok THEN acc.failed ELSE acc.failed \cup {f}]
         IN IF r.ok THEN symlink_loop_break(b, Tail(order), outc, nxt) ELSE nxt

RECURSIVE symlink_loop(_, _, _, _)
symlink_loop(b, order, outc, acc) ==
    IF order = <<>> THEN acc
    ELSE LET f == Head(order)
             r == link_one(acc.entries[f], b, f, outc[f])
         IN symlink_loop(b, Tail(order), outc,
                [entries |-> [acc.entries EXCEPT ![f] = r.entry],
                 attempted |-> acc.attempted \cup {f},
                 failed |-> IF r.ok THEN acc.failed ELSE acc.failed \cup {f}])

Orders(S) == {q \in [1..Cardinality(S) -> S] : \A i, j \in DOMAIN q : i # j => q[i] # q[j]}

----------------------------------------------------------------------------
(* Inputs *)

Versions == {LATEST, <<"2">>, <<"l">>, <<>>}
ArchiveNames == {<<"n">>, <<"n", "?", "q">>}
Mirrors == SeqsUpTo({"m", "/"}, MaxMirrorLen)
Tokens == SeqsUpTo({"0", "a"}, MaxTokenLen)

DefaultRoots == [r \in KnownRoots |-> AbsentRoot]
DefaultCustom == [r \in CustomRoots |-> AbsentEntry]
DefaultListing == [f \in ExtraNames |-> "absent"]

\* File systems the installer may leave behind
InstalledRoots ==
    {[r \in KnownRoots |-> IF r = KNOWN_TEXLIVE_ROOTS[1] THEN a ELSE b] :
        a \in {AbsentRoot, FileRoot,
               DirRoot([n \in Names |-> IF n = <<9>> THEN BinEntry({"x86_64-linux"})
                                        ELSE BinEntry({"aarch64-linux"})]),
               DirRoot([n \in Names |-> IF n = <<9>> THEN NoBinEntry ELSE AbsentEntry])},
        b \in {AbsentRoot,
               DirRoot([n \in Names |-> IF n = <<9>> THEN AbsentEntry ELSE BinEntry(Archs)])}}
InstalledCustom ==
    {[r \in CustomRoots |-> IF r = "/srv/tl" THEN e ELSE AbsentEntry] :
        e \in {NoBinEntry, BinEntry({"x86_64-linux"})}}
InstalledListing ==
    {[f \in ExtraNames |-> IF f = "a" THEN "file" ELSE k] : k \in {"absent", "dir"}}
InstalledDest ==
    {NoDest, FileDest,
     DirDest([n \in DestNames |-> IF n = "tex" THEN DBroken(n)
                                  ELSE IF n = "z" THEN DFile ELSE DAbsent]),
     DirDest([n \in DestNames |-> IF n = "tex" THEN DDir ELSE DAbsent])}

\* Every file system of the bounded shape
AllRoots == [KnownRoots -> RootStates]
AllCustom == [CustomRoots -> Entries]
AllListings == [ExtraNames -> EntryKinds]
AllDests ==
    {NoDest, FileDest} \cup
    {DirDest(es) : es \in {g \in [DestNames -> UNION {DestEntries(f) : f \in DestNames}] :
                              \A f \in DestNames : g[f] \in DestEntries(f)}}

----------------------------------------------------------------------------
(* main *)

Init ==
    /\ command \in {"get-installer", "install"}
    /\ pc = "start"
    /\ exit_code = NoExit
    /\ steps = <<>>
    /\ proc = NoProc
    /\ ncalls = 0
    /\ installed = FALSE
    /\ probe_ok = FALSE
    /\ roots = DefaultRoots
    /\ custom = DefaultCustom
    /\ listing = DefaultListing
    /\ dest = NoDest
    /\ dest0 = NoDest
    /\ bin_dir = None
    /\ link_src = None
    /\ attempted = {}
    /\ link_failed = {}
    /\ url = <<>>
    /\ fetched = <<>>
    /\ IF command = "install"
       THEN /\ install_tl \in InstallTlKinds
            /\ version = LATEST
            /\ archive_name = <<"n">>
            /\ mirror = <<"m">>
            /\ archive_mirror = <<"m">>
            /\ cache_buster = <<"0">>
       ELSE /\ install_tl = "absent"
            /\ version \in Versions
            /\ archive_name \in ArchiveNames
            /\ mirror \in Mirrors
            /\ archive_mirror \in Mirrors
            /\ cache_buster \in Tokens

Exit(code) == pc' = "done" /\ exit_code' = code
Goto(l) == pc' = l /\ exit_code' = exit_code
Ran(cmd, rc) == proc' = [cmd |-> cmd, rc |-> rc] /\ ncalls' = ncalls + 1
RanNothing == proc' = NoProc /\ ncalls' = ncalls
Step(s) == steps' = Append(steps, s)

\* get-installer: download_installer, then return 0
DownloadInstaller ==
    /\ pc = "start" /\ command = "get-installer"
    /\ url' = resolve_url(version, archive_name, mirror, archive_mirror)
    /\ fetched' = append_cache_buster(url', cache_buster)
    /\ \E net \in {"ok", "URLError"} : Exit(IF net = "ok" THEN 0 ELSE 1)
    /\ UNCHANGED <<command, steps, proc, ncalls, installed, probe_ok, fsVars, dest,
                   dest0, bin_dir, link_src, attempted, link_failed, urlVars>>

\* install: locate_install_tl
LocateInstallTl ==
    /\ pc = "start" /\ command = "install"
    /\ Step("locate")
    /\ IF locate_install_tl(install_tl) # "" THEN Goto("invoke") ELSE Exit(1)
    /\ UNCHANGED <<command, proc, ncalls, installed, probe_ok, fsVars, dest, dest0,
                   bin_dir, link_src, attempted, link_failed, urlVars, url, fetched>>

\* run_subprocess(args, cwd=workdir): the installer writes the installation
RunInstaller ==
    /\ pc = "invoke"
    /\ Step("installer")
    /\ \E rc \in Outcomes :
        /\ Ran("installer", rc)
        /\ IF run_subprocess(rc, TRUE).raised
           THEN /\ Exit(run_subprocess(rc, TRUE).code)
                /\ UNCHANGED <<installed, roots, custom, listing, dest>>
           ELSE /\ Goto("probe1")
                /\ installed' = TRUE
                /\ roots' \in InstalledRoots
                /\ custom' \in InstalledCustom
                /\ listing' \in InstalledListing
                /\ dest' \in InstalledDest
    /\ UNCHANGED <<command, probe_ok, install_tl, dest0, bin_dir, link_src,
                   attempted, link_failed, urlVars, url, fetched>>

\* check_path() and the branch its caller takes on the result
Probe(onTrue, onFalse) ==
    /\ Step("probe")
    /\ \E rc \in Outcomes :
        /\ Ran("tex", rc)
        /\ probe_ok' = (probe_ok \/ rc = 0)
        /\ IF check_path(rc)
           THEN IF onTrue = "done" THEN Exit(0) ELSE Goto(onTrue)
           ELSE IF onFalse = "done" THEN Exit(1) ELSE Goto(onFalse)
    /\ UNCHANGED <<command, installed, fsVars, dest, dest0, bin_dir, link_src,
                   attempted, link_failed, urlVars, url, fetched>>

\* if check_path(): return
CheckPath1 ==
    /\ pc = "probe1"
    /\ Probe("done", "discover")

\* ... and check_path(): return
CheckPath2 ==
    /\ pc = "probe2"
    /\ Probe("done", "symlink")

\* ... and check_path(): return; else raise SystemExit(1)
CheckPath3 ==
    /\ pc = "probe3"
    /\ Probe("done", "done")

\* resolve_texlive_bin_dir
ResolveTexliveBinDir ==
    /\ pc = "discover"
    /\ Step("discover")
    /\ LET s == iter_candidate_bin_dirs(roots)
       IN IF s.status = "crash"
          THEN Exit(1) /\ RanNothing /\ bin_dir' = None
          ELSE IF s.status = "found"
          THEN Goto("have_bin") /\ RanNothing /\ bin_dir' \in s.cands
          ELSE /\ Goto("have_bin")
               /\ \E rc \in Outcomes, out \in SeqsUpTo(Lines, MaxLines) :
                    /\ Ran("tlmgr conf", rc)
                    /\ bin_dir' \in bin_dir_from_tlmgr(custom, rc, out)
    /\ UNCHANGED <<command, installed, probe_ok, fsVars, dest, dest0, link_src,
                   attempted, link_failed, urlVars, url, fetched>>

\* if not bin_dir: raise SystemExit(1)
CheckBinDir ==
    /\ pc = "have_bin"
    /\ IF bin_dir = None THEN Exit(1) ELSE Goto("path_add")
    /\ RanNothing
    /\ UNCHANGED <<command, steps, installed, probe_ok, fsVars, dest, dest0, bin_dir,
                   link_src, attempted, link_failed, urlVars, url, fetched>>

\* tlmgr_path_add without its except clause: SystemExit leaves run_install
TlmgrPathAddUncaught ==
    /\ pc = "path_add"
    /\ Step("path_add")
    /\ \E rc \in Outcomes :
        /\ Ran("tlmgr path add", rc)
        /\ IF run_subprocess(rc, FALSE).raised
           THEN Exit(run_subprocess(rc, FALSE).code)
           ELSE Goto("probe2")
    /\ UNCHANGED <<command, installed, probe_ok, fsVars, dest, dest0, bin_dir,
                   link_src, attempted, link_failed, urlVars, url, fetched>>

\* tlmgr_path_add(bin_dir) and ...
TlmgrPathAdd ==
    /\ pc = "path_add"
    /\ Step("path_add")
    /\ \E rc \in Outcomes :
        /\ Ran("tlmgr path add", rc)
        /\ IF tlmgr_path_add(rc) THEN Goto("probe2") ELSE Goto("symlink")
    /\ UNCHANGED <<command, installed, probe_ok, fsVars, dest, dest0, bin_dir,
                   link_src, attempted, link_failed, urlVars, url, fetched>>

\* symlink_binaries(bin_dir, SYMLINK_DESTINATION) and ...
SymlinkBinaries ==
    /\ pc = "symlink"
    /\ Step("symlink")
    /\ RanNothing
    /\ dest0' = dest
    /\ link_src' = bin_dir
    /\ \E mkdir_ok \in BOOLEAN :
        IF dest.kind = "file" \/ (dest.kind = "absent" /\ ~mkdir_ok)
        THEN \* destination.mkdir raises: uncaught OSError
             Exit(1) /\ UNCHANGED <<dest, attempted, link_failed>>
        ELSE \E order \in Orders(regular_files(listing)),
                outc \in [regular_files(listing) -> Outs] :
               LET r == symlink_loop(bin_dir, order, outc,
                            [entries |-> dest.entries, attempted |-> {}, failed |-> {}])
               IN /\ dest' = DirDest(r.entries)
                  /\ attempted' = r.attempted
                  /\ link_failed' = r.failed
                  /\ IF r.failed = {} THEN Goto("probe3") ELSE Exit(1)
    /\ UNCHANGED <<command, installed, probe_ok, fsVars, bin_dir, urlVars, url, fetched>>

Next ==
    \/ DownloadInstaller
    \/ LocateInstallTl
    \/ RunInstaller
    \/ CheckPath1
    \/ ResolveTexliveBinDir
    \/ CheckBinDir
    \/ TlmgrPathAdd
    \/ CheckPath2
    \/ SymlinkBinaries
    \/ CheckPath3

Spec == Init /\ [][Next]_vars

----------------------------------------------------------------------------
(* The resolver on every file system of the bounded shape: run_install   *)
(* about to call resolve_texlive_bin_dir.                                  *)

InitResolve ==
    /\ command = "install"
    /\ pc = "discover"
    /\ exit_code = NoExit
    /\ steps = <<"locate", "installer", "probe">>
    /\ proc = [cmd |-> "tex", rc |-> 1]
    /\ ncalls = 2
    /\ installed = TRUE
    /\ probe_ok = FALSE
    /\ install_tl = "file"
    /\ roots \in AllRoots
    /\ custom \in AllCustom
    /\ listing = DefaultListing
    /\ dest = NoDest
    /\ dest0 = NoDest
    /\ bin_dir = None
    /\ link_src = None
    /\ attempted = {}
    /\ link_failed = {}
    /\ version = LATEST
    /\ archive_name = <<"n">>
    /\ mirror = <<"m">>
    /\ archive_mirror = <<"m">>
    /\ cache_buster = <<"0">>
    /\ url = <<>>
    /\ fetched = <<>>

NextResolve == ResolveTexliveBinDir \/ CheckBinDir

SpecResolve == InitResolve /\ [][NextResolve]_vars

(* The symlink fixer on every binary directory and destination of the     *)
(* bounded shape: run_install about to call symlink_binaries.              *)

InitSymlink ==
    /\ command = "install"
    /\ pc = "symlink"
    /\ exit_code = NoExit
    /\ steps = <<"locate", "installer", "probe", "discover", "path_add">>
    /\ proc = [cmd |-> "tlmgr path add", rc |-> NotFound]
    /\ ncalls = 3
    /\ installed = TRUE
    /\ probe_ok = FALSE
    /\ install_tl = "file"
    /\ roots = [r \in KnownRoots |->
                  IF r = KNOWN_TEXLIVE_ROOTS[1]
                  THEN DirRoot([n \in Names |-> BinEntry({"x86_64-linux"})])
                  ELSE AbsentRoot]
    /\ custom = DefaultCustom
    /\ listing \in AllListings
    /\ dest \in AllDests
    /\ dest0 = NoDest
    /\ bin_dir = Path(KNOWN_TEXLIVE_ROOTS[1], <<9>>, "x86_64-linux")
    /\ link_src = None
    /\ attempted = {}
    /\ link_failed = {}
    /\ version = LATEST
    /\ archive_name = <<"n">>
    /\ mirror = <<"m">>
    /\ archive_mirror = <<"m">>
    /\ cache_buster = <<"0">>
    /\ url = <<>>
    /\ fetched = <<>>

NextSymlink == SymlinkBinaries \/ CheckPath3

SpecSymlink == InitSymlink /\ [][NextSymlink]_vars

----------------------------------------------------------------------------
(* Properties *)

Range(q) == {q[i] : i \in DOMAIN q}
IsPrefix(p, q) == Len(p) <= Len(q) /\ p = SubSeq(q, 1, Len(p))
LastOf(q) == q[Len(q)]

FixedOrder ==
    <<"locate", "installer", "probe", "discover", "path_add", "probe", "symlink", "probe">>
\* the order when tlmgr could not be started: no probe after path_add
SkipOrder ==
    <<"locate", "installer", "probe", "discover", "path_add", "symlink", "probe">>

\* No probe before the installer exited 0; path add and symlinking only with
\* a binary directory; symlinking only after path add was attempted; no step
\* after a successful probe.
StepGuards ==
    /\ "probe" \in Range(steps) => installed
    /\ (\E i \in DOMAIN steps : steps[i] \in {"path_add", "symlink"}) => bin_dir # None
    /\ \A i \in DOMAIN steps :
         steps[i] = "symlink" => \E j \in 1..(i - 1) : steps[j] = "path_add"
    /\ probe_ok => /\ pc = "done"
                   /\ LastOf(steps) = "probe"
                   /\ proc = [cmd |-> "tex", rc |-> 0]

\* C1 as stated: the steps of install are always an initial part of the one
\* fixed order locate, installer, probe, discover, path add, probe, symlink,
\* probe, and the step guards hold.
C1_FixedOrder ==
    command = "install" => IsPrefix(steps, FixedOrder) /\ StepGuards

\* C1 amended: the steps are an initial part of the fixed order, or of that
\* order without the probe after path add, which is left out exactly when
\* tlmgr could not be started; the step guards hold.
C1_OrderWithSkip ==
    command = "install" =>
        /\ IsPrefix(steps, FixedOrder) \/ IsPrefix(steps, SkipOrder)
        /\ (pc = "symlink" /\ LastOf(steps) = "path_add")
              <=> (proc = [cmd |-> "tlmgr path add", rc |-> NotFound] /\ pc # "done")
        /\ StepGuards

C1_Witness ==
    /\ steps = SkipOrder
    /\ pc = "done"
    /\ probe_ok

\* C2: without a regular file install-tl or install-tl/install-tl in the
\* working directory, install ends with exit code 1, no subprocess has been
\* invoked and no symlink has been created.
C2_NoEntryPoint ==
    (command = "install" /\ install_tl \notin {"file", "dir_with_file"} /\ pc # "start")
        => /\ pc = "done" /\ exit_code = 1
           /\ ncalls = 0 /\ proc = NoProc
           /\ steps = <<"locate">>
           /\ attempted = {} /\ dest = NoDest

C2_Witness ==
    /\ command = "install"
    /\ install_tl = "dir_empty"
    /\ pc = "done"
    /\ exit_code = 1

Absorbed == {"tex", "tlmgr conf", "tlmgr path add"}

\* C3 as stated: whenever an invoked command exits with a non-zero code c,
\* the tool has terminated with exit code c.
C3_AnyFailureFatal ==
    (proc.cmd # "none" /\ proc.rc > 0) => (pc = "done" /\ exit_code = proc.rc)

\* C3 amended: a non-zero exit c of the installer ends the tool with exit
\* code c and nothing further runs; a non-zero exit of the tex probe, of
\* tlmgr conf or of tlmgr path add is never propagated: the run goes on, or
\* ends with exit code 1.
C3_InstallerFailureFatal ==
    /\ (proc.cmd = "installer" /\ proc.rc > 0) => (pc = "done" /\ exit_code = proc.rc)
    /\ (proc.cmd \in Absorbed /\ proc.rc > 0) => (pc = "done" => exit_code = 1)
    /\ (proc.cmd = "tlmgr path add" /\ proc.rc > 0) => pc = "probe2"
    /\ (proc.cmd = "tlmgr conf" /\ proc.rc > 0) => (pc = "have_bin" /\ bin_dir = None)
    /\ pc = "done" => ~ENABLED Next

C3_Witness ==
    /\ proc = [cmd |-> "installer", rc |-> 2]
    /\ pc = "done"
    /\ exit_code = 2

\* C4: once the installer has exited 0, install ends with exit code 0 if and
\* only if a tex probe succeeded, and with exit code 1 otherwise.
C4_ExitCode ==
    (command = "install" /\ pc = "done" /\ installed)
        => /\ exit_code \in {0, 1}
           /\ exit_code = 0 <=> probe_ok

C4_Witness ==
    /\ installed
    /\ pc = "done"
    /\ exit_code = 1
    /\ steps = FixedOrder
    /\ ~probe_ok

Looped == "symlink" \in Range(steps) /\ dest.kind = "dir"
FilesOf(lst) == {"tex"} \cup {f \in ExtraNames : lst[f] = "file"}

\* C5: a failed link does not stop the loop, every regular file of the
\* binary directory is attempted; if a link failed, or the probe after
\* linking fails, install ends with exit code 1.
C5_PartialFailure ==
    Looped =>
        /\ attempted = FilesOf(listing)
        /\ link_failed # {} => (pc = "done" /\ exit_code = 1)
        /\ (LastOf(steps) = "probe" /\ proc.rc # 0) => (pc = "done" /\ exit_code = 1)

C5_Witness ==
    /\ Looped
    /\ link_failed = {"tex"}
    /\ attempted = {"tex", "a"}
    /\ dest.entries["a"] = DLink(bin_dir, "a")
    /\ exit_code = 1

\* C6: after the fixer ran without OS errors, every regular file f of the
\* binary directory has a symlink of its name in the destination pointing at
\* it, whatever the destination held under that name; subdirectories get no
\* link and every other entry of the destination is unchanged.
C6_FreshLinks ==
    (Looped /\ link_failed = {}) =>
        \A f \in DestNames :
            IF f \in FilesOf(listing)
            THEN dest.entries[f] = DLink(bin_dir, f)
            ELSE dest.entries[f] = dest0.entries[f]

C6_Witness ==
    /\ Looped /\ link_failed = {}
    /\ listing = [f \in ExtraNames |-> IF f = "a" THEN "file" ELSE "dir"]
    /\ dest0.kind = "dir"
    /\ dest0.entries["tex"] = DBroken("tex")
    /\ dest0.entries["a"] = DLink(OldDir, "a")
    /\ dest0.entries["sub"] = DFile
    /\ dest0.entries["z"] = DFile
    /\ dest.entries["tex"] = DLink(bin_dir, "tex")
    /\ dest.entries["sub"] = DFile

\* the url download_installer built has been fixed
Fetched == command = "get-installer" /\ pc = "done"

\* C7 as stated: the url before the cache-buster is <mirror>/<archive-name>
\* for "latest" and <archive-mirror>/<v>/tlnet-final/<archive-name> otherwise.
C7_UrlFromMirror ==
    Fetched =>
        url = IF version = LATEST
              THEN mirror \o <<"/">> \o archive_name
              ELSE archive_mirror \o <<"/">> \o version
                       \o <<"/", "tlnet-final", "/">> \o archive_name

\* b is m without its trailing "/" characters
IsStripped(b, m) ==
    /\ IsPrefix(b, m)
    /\ b = <<>> \/ LastOf(b) # "/"
    /\ \A i \in (Len(b) + 1)..Len(m) : m[i] = "/"

\* C7 amended: the url is built as stated from the mirror (for "latest") or
\* the archive mirror (otherwise) with its trailing "/" characters removed.
C7_UrlFromStrippedMirror ==
    Fetched =>
        \E b \in Mirrors :
            /\ IsStripped(b, IF version = LATEST THEN mirror ELSE archive_mirror)
            /\ url = IF version = LATEST
                     THEN b \o <<"/">> \o archive_name
                     ELSE b \o <<"/">> \o version
                              \o <<"/", "tlnet-final", "/">> \o archive_name

C7_Witness ==
    /\ Fetched
    /\ version = <<"2">>
    /\ archive_mirror = <<"m", "/">>
    /\ mirror = <<"/">>
    /\ url = <<"m", "/", "2", "/", "tlnet-final", "/", "n">>

\* C8: the url fetched is the resolved url u unchanged when the token t is
\* empty or "0", else u?ts=t when u holds no "?" and u&ts=t when it does.
C8_CacheBuster ==
    Fetched =>
        LET u == url
            t == cache_buster
            q == \E i \in DOMAIN u : u[i] = "?"
        IN IF Len(t) = 0 \/ (Len(t) = 1 /\ t[1] = "0")
           THEN fetched = u
           ELSE /\ Len(fetched) = Len(u) + 4 + Len(t)
                /\ SubSeq(fetched, 1, Len(u)) = u
                /\ fetched[Len(u) + 1] = (IF q THEN "&" ELSE "?")
                /\ SubSeq(fetched, Len(u) + 2, Len(u) + 4) = <<"t", "s", "=">>
                /\ SubSeq(fetched, Len(u) + 5, Len(fetched)) = t

C8_Witness ==
    /\ Fetched
    /\ cache_buster = <<"0", "0">>
    /\ url = <<"m", "/", "n", "?", "q">>
    /\ fetched = <<"m", "/", "n", "?", "q", "&", "t", "s", "=", "0", "0">>

HasTex(r, n) ==
    /\ roots[r].kind = "dir"
    /\ roots[r].entries[n].kind = "bin"
    /\ roots[r].entries[n].tex # {}
RootHasTex(r) == \E n \in Names : HasTex(r, n)
Before(r) == {KNOWN_TEXLIVE_ROOTS[j] : j \in 1..((CHOOSE i \in DOMAIN KNOWN_TEXLIVE_ROOTS :
                                                   KNOWN_TEXLIVE_ROOTS[i] = r) - 1)}
Resolved == "discover" \in Range(steps)
\* root.iterdir() on a regular file raises before any directory was found
Unscannable ==
    \E r \in KnownRoots : roots[r].kind = "file" /\ \A r2 \in Before(r) : ~RootHasTex(r2)

\* C9: a directory found under a known root is an architecture directory
\* holding tex, of the greatest entry in string order that has one, in the
\* first known root that has one, and tlmgr was not invoked; tlmgr conf is
\* invoked only when no known root has such a directory; when it fails, is
\* missing or names no root with one, the resolver returns no directory and
\* the process has not terminated.
C9_Discovery ==
    Resolved =>
        /\ bin_dir.root \in KnownRoots =>
             /\ HasTex(bin_dir.root, bin_dir.entry)
             /\ bin_dir.arch \in roots[bin_dir.root].entries[bin_dir.entry].tex
             /\ \A n \in Names : LexLess(bin_dir.entry, n) => ~HasTex(bin_dir.root, n)
             /\ \A r \in Before(bin_dir.root) : ~RootHasTex(r)
             /\ ncalls = 2
        /\ (\E r \in KnownRoots : RootHasTex(r)) /\ ~Unscannable
             => bin_dir.root \in KnownRoots
        /\ ncalls > 2 => \A r \in KnownRoots : ~RootHasTex(r)
        /\ proc.cmd = "tlmgr conf" =>
             /\ pc = "have_bin" /\ exit_code = NoExit
             /\ (proc.rc # 0 \/ \A c \in CustomRoots : custom[c].tex = {})
                   => bin_dir = None
             /\ bin_dir # None =>
                   /\ bin_dir.root \in CustomRoots /\ bin_dir.entry = <<>>
                   /\ custom[bin_dir.root].kind = "bin"
                   /\ bin_dir.arch \in custom[bin_dir.root].tex
        /\ (~Unscannable /\ \A r \in KnownRoots : ~RootHasTex(r)) => ncalls > 2

C9_Witness ==
    /\ Resolved
    /\ roots[KNOWN_TEXLIVE_ROOTS[1]].kind = "dir"
    /\ HasTex(KNOWN_TEXLIVE_ROOTS[2], <<1, 0>>)
    /\ bin_dir = Path(KNOWN_TEXLIVE_ROOTS[2], <<9>>, "aarch64-linux")
    /\ pc = "path_add"

\* C10: a failed tlmgr path add (non-zero exit, or not found) does not end
\* install; after the attempt, the run ends without the symlink step only
\* by a successful probe, and the symlink step links from the binary
\* directory discovered before the attempt.
C10_PathAddNotFatal ==
    command = "install" =>
        /\ (proc.cmd = "tlmgr path add" /\ proc.rc # 0)
              => (pc \in {"probe2", "symlink"} /\ exit_code = NoExit)
        /\ ("path_add" \in Range(steps) /\ pc = "done" /\ "symlink" \notin Range(steps))
              => (probe_ok /\ exit_code = 0)
        /\ "path_add" \in Range(steps) =>
              /\ bin_dir # None
              /\ bin_dir.root \in KnownRoots => HasTex(bin_dir.root, bin_dir.entry)
              /\ bin_dir.root \in CustomRoots => custom[bin_dir.root].tex # {}
        /\ "symlink" \in Range(steps) => link_src = bin_dir

C10_Witness ==
    /\ steps = <<"locate", "installer", "probe", "discover", "path_add", "symlink">>
    /\ pc = "probe3"
    /\ link_src = bin_dir
    /\ bin_dir.root \in CustomRoots
    /\ dest.entries["tex"] = DLink(bin_dir, "tex")

====
